---- MODULE Spec2Model ----
(***************************************************************************)
(* A model of the Fiat-Shamir transcript (src/src/plonk_challenger.rs) and *)
(* of the private-transaction ledger emulation                            *)
(* (src/plonky2/examples/private_tx/{server,client}_emulation.rs, main.rs).*)
(*                                                                         *)
(* Field elements and digests are terms of a free algebra: the sponge      *)
(* permutation and the accumulator hash are external collaborators known   *)
(* only to be fixed, public and collision resistant, so the output slot j  *)
(* of the permutation applied to the state s is the term <<s, j>>, and     *)
(* two terms are equal exactly when they were computed the same way.       *)
(***************************************************************************)
EXTENDS Integers, Sequences, FiniteSets, TLC

\* ------------------------------------------------------------------ bounds

\* The rate of the sponge (8 in the crate, scaled down).
SPONGE_RATE == 2

\* The number of observe / get_challenge calls of one transcript.
MaxCalls == 9

\* The prover messages the transcript may observe.
Vals == {1, 2}

\* The height of both accumulators (tree_height = 10 in the source, scaled down).
TreeHeight == 3

\* The balance of every seeded note (1000 in the source, scaled down).
InitBalance == 2

\* The number of submissions the coordinator accepts before the model stops.
MaxProofs == 3

\* The call-stack frames get_recursive_proof may use before the stack overflows.
MaxFoldDepth == 4

\* token_id
Token == 1

\* The wallets, named by their private keys; wallet k's seed note is leaf k - 1.
Wallets == {1, 2}

\* The amounts a wallet may ask to split off: one of them exceeds every balance.
Deltas == 0..(InitBalance + 1)

\* The width of the sponge: rate plus a capacity of one element.
SPONGE_WIDTH == SPONGE_RATE + 1

VARIABLES
    challenger,            \* the native Challenger<F>
    recursive_challenger,  \* the RecursiveChallenger (its fields are targets)
    builder,               \* the CircuitBuilder: the permutation gates added so far
    outputs,               \* the challenges the native transcript returned, in call order
    recursive_outputs,     \* the targets the recursive transcript returned, in call order
    ncalls,                \* the number of calls made on the transcripts
    calls,                 \* the calls made on the transcripts, in order: v for
                           \* observe_element(v), 0 for get_challenge
    server,                \* the Server: its State and its proofs (the ProofLog)
    clients,               \* the Clients (wallets), by private key
    verify_ret,            \* what the last call's verify_and_update_state returned
    split_ret,             \* what the last split_and_submit call returned
    fold_ret,              \* what the last get_recursive_proof call returned
    accepted,              \* the number of submissions accepted so far
    splits                 \* the split_and_submit calls that returned Ok, in order,
                           \* each as <<wallet, delta>>

chVars == <<challenger, recursive_challenger, builder, outputs, recursive_outputs, ncalls,
            calls>>

ledgerVars == <<server, clients, verify_ret, split_ret, fold_ret, accepted, splits>>

vars == <<chVars, ledgerVars>>

Min(a, b) == IF a <= b THEN a ELSE b

\* ------------------------------------------------- field and permutation

\* A field element that is a prover message (or a constant): no permutation made it.
Elem(v) == <<<<>>, v>>

\* F::ZERO
ZERO == Elem(0)

\* hash::permute: slot j of the permuted state is a fresh function of the whole input.
permute(state) == [j \in 1..SPONGE_WIDTH |-> <<state, j>>]

\* ----------------------------------------------------- native Challenger

\* Challenger::new
Challenger_new ==
    [sponge_state |-> [i \in 1..SPONGE_WIDTH |-> ZERO],
     input_buffer |-> <<>>,
     output_buffer |-> <<>>]

\* A slip of Challenger::observe_element: the buffered outputs are kept.
observe_element_keeps_outputs(self, element) ==
    [self EXCEPT !.input_buffer = Append(self.input_buffer, element)]

\* Challenger::observe_element
observe_element(self, element) ==
    [self EXCEPT !.output_buffer = <<>>,
                 !.input_buffer = Append(self.input_buffer, element)]

\* A slip of the absorption loop: the rate slots a short chunk does not reach are
\* zeroed.
RECURSIVE absorb_chunks_zero_rest(_, _)
absorb_chunks_zero_rest(state, inputs) ==
    IF inputs = <<>> THEN state
    ELSE LET n == Min(SPONGE_RATE, Len(inputs))
             input_chunk == SubSeq(inputs, 1, n)
             overwritten == [i \in 1..SPONGE_WIDTH |->
                                IF i <= n THEN input_chunk[i]
                                ELSE IF i <= SPONGE_RATE THEN ZERO ELSE state[i]]
         IN absorb_chunks_zero_rest(permute(overwritten),
                                    SubSeq(inputs, n + 1, Len(inputs)))

\* The loop of absorb_buffered_inputs over input_buffer.chunks(SPONGE_RATE).
RECURSIVE absorb_chunks(_, _)
absorb_chunks(state, inputs) ==
    IF inputs = <<>> THEN state
    ELSE LET n == Min(SPONGE_RATE, Len(inputs))
             input_chunk == SubSeq(inputs, 1, n)
             overwritten == [i \in 1..SPONGE_WIDTH |->
                                IF i <= n THEN input_chunk[i] ELSE state[i]]
         IN absorb_chunks(permute(overwritten), SubSeq(inputs, n + 1, Len(inputs)))

\* Challenger::absorb_buffered_inputs
absorb_buffered_inputs(self) ==
    IF self.input_buffer = <<>> THEN self
    ELSE LET state == absorb_chunks(self.sponge_state, self.input_buffer)
         IN [sponge_state |-> state,
             output_buffer |-> SubSeq(state, 1, SPONGE_RATE),
             input_buffer |-> <<>>]

\* The squeeze of Challenger::get_challenge, when no output is buffered.
squeeze(self) ==
    IF self.output_buffer = <<>>
    THEN LET state == permute(self.sponge_state)
         IN [self EXCEPT !.sponge_state = state,
                         !.output_buffer = SubSeq(state, 1, SPONGE_RATE)]
    ELSE self

\* A slip of Challenger::get_challenge: the last output is read and not popped.
get_challenge_no_pop(self) ==
    LET filled == squeeze(absorb_buffered_inputs(self))
    IN [self |-> filled, ret |-> filled.output_buffer[Len(filled.output_buffer)]]

\* A slip of Challenger::get_challenge: the first buffered output is taken.
get_challenge_pops_front(self) ==
    LET filled == squeeze(absorb_buffered_inputs(self))
        n == Len(filled.output_buffer)
    IN [self |-> [filled EXCEPT !.output_buffer = SubSeq(filled.output_buffer, 2, n)],
        ret |-> filled.output_buffer[1]]

\* A slip of Challenger::get_challenge: the observed messages are not absorbed.
get_challenge_no_absorb(self) ==
    LET filled == squeeze(self)
        n == Len(filled.output_buffer)
    IN [self |-> [filled EXCEPT !.output_buffer = SubSeq(filled.output_buffer, 1, n - 1)],
        ret |-> filled.output_buffer[n]]

\* Challenger::get_challenge: the challenger after the call and the challenge returned.
get_challenge(self) ==
    LET filled == squeeze(absorb_buffered_inputs(self))
        n == Len(filled.output_buffer)
    IN [self |-> [filled EXCEPT !.output_buffer = SubSeq(filled.output_buffer, 1, n - 1)],
        ret |-> filled.output_buffer[n]]

\* -------------------------------------------------- RecursiveChallenger

\* A target is <<g, j>>: wire j of the permutation gate g, or for g = 0 the constant j.

\* CircuitBuilder::zero
builder_zero == <<0, 0>>

\* CircuitBuilder::constant
builder_constant(v) == <<0, v>>

\* CircuitBuilder::permute: adds a gate whose inputs are wired to `targets`; the
\* builder after the call and the gate's output targets.
builder_permute(b, targets) ==
    [builder |-> Append(b, targets),
     ret |-> [j \in 1..SPONGE_WIDTH |-> <<Len(b) + 1, j>>]]

\* generate_partial_witness / get_targets: the value a target takes in the witness.
RECURSIVE witness_get_target(_, _)
witness_get_target(b, t) ==
    IF t[1] = 0 THEN Elem(t[2])
    ELSE permute([i \in 1..SPONGE_WIDTH |-> witness_get_target(b, b[t[1]][i])])[t[2]]

witness_get_targets(b, ts) == [i \in 1..Len(ts) |-> witness_get_target(b, ts[i])]

\* RecursiveChallenger::new
RecursiveChallenger_new ==
    [sponge_state |-> [i \in 1..SPONGE_WIDTH |-> builder_zero],
     input_buffer |-> <<>>,
     output_buffer |-> <<>>]

\* A slip of RecursiveChallenger::observe_element: the buffered outputs are kept.
r_observe_element_keeps_outputs(self, target) ==
    [self EXCEPT !.input_buffer = Append(self.input_buffer, target)]

\* RecursiveChallenger::observe_element
r_observe_element(self, target) ==
    [self EXCEPT !.output_buffer = <<>>,
                 !.input_buffer = Append(self.input_buffer, target)]

\* The loop of RecursiveChallenger::absorb_buffered_inputs: the builder and the
\* state after the chunks.
RECURSIVE r_absorb_chunks(_, _, _)
r_absorb_chunks(b, state, inputs) ==
    IF inputs = <<>> THEN [builder |-> b, state |-> state]
    ELSE LET n == Min(SPONGE_RATE, Len(inputs))
             input_chunk == SubSeq(inputs, 1, n)
             overwritten == [i \in 1..SPONGE_WIDTH |->
                                IF i <= n THEN input_chunk[i] ELSE state[i]]
             p == builder_permute(b, overwritten)
         IN r_absorb_chunks(p.builder, p.ret, SubSeq(inputs, n + 1, Len(inputs)))

\* RecursiveChallenger::absorb_buffered_inputs
r_absorb_buffered_inputs(self, b) ==
    IF self.input_buffer = <<>> THEN [self |-> self, builder |-> b]
    ELSE LET a == r_absorb_chunks(b, self.sponge_state, self.input_buffer)
         IN [self |-> [sponge_state |-> a.state,
                       output_buffer |-> SubSeq(a.state, 1, SPONGE_RATE),
                       input_buffer |-> <<>>],
             builder |-> a.builder]

\* The squeeze of RecursiveChallenger::get_challenge.
r_squeeze(self, b) ==
    IF self.output_buffer = <<>>
    THEN LET p == builder_permute(b, self.sponge_state)
         IN [self |-> [self EXCEPT !.sponge_state = p.ret,
                                   !.output_buffer = SubSeq(p.ret, 1, SPONGE_RATE)],
             builder |-> p.builder]
    ELSE [self |-> self, builder |-> b]

\* RecursiveChallenger::get_challenge
r_get_challenge(self, b) ==
    LET a == r_absorb_buffered_inputs(self, b)
        s == r_squeeze(a.self, a.builder)
        n == Len(s.self.output_buffer)
    IN [self |-> [s.self EXCEPT !.output_buffer = SubSeq(s.self.output_buffer, 1, n - 1)],
        builder |-> s.builder,
        ret |-> s.self.output_buffer[n]]

\* ------------------------------------------------- hash and accumulator

RECURSIVE Pow2(_)
Pow2(n) == IF n = 0 THEN 1 ELSE 2 * Pow2(n - 1)

\* PoseidonHash::hash_no_pad over priv_key, 0, 0, token_id, amount: a note's leaf.
hash_no_pad(priv_key, token_id, amount) == <<priv_key, 0, 0, token_id, amount>>

\* The leaf of a slot no note was inserted at.
EmptyLeaf == <<0, 0, 0, 0, 0>>

\* The compression of two digests into their parent's.
two_to_one(l, r) == <<l, r>>

\* The root of the Merkle tree over `leaves` (a power of two of them).
RECURSIVE MerkleRoot(_)
MerkleRoot(leaves) ==
    IF Len(leaves) = 1 THEN leaves[1]
    ELSE LET h == Len(leaves) \div 2
         IN two_to_one(MerkleRoot(SubSeq(leaves, 1, h)),
                       MerkleRoot(SubSeq(leaves, h + 1, Len(leaves))))

\* MerkleTree::new: the leaves and the cap (of height 0: the root alone).
MerkleTree_new(leaves) == [leaves |-> leaves, cap |-> <<MerkleRoot(leaves)>>]

\* MerkleTree::prove: the siblings on the path of leaf `index` (from 0), bottom up.
RECURSIVE MerkleProve(_, _)
MerkleProve(leaves, index) ==
    IF Len(leaves) = 1 THEN <<>>
    ELSE LET h == Len(leaves) \div 2
             lo == SubSeq(leaves, 1, h)
             hi == SubSeq(leaves, h + 1, Len(leaves))
         IN IF index < h
            THEN Append(MerkleProve(lo, index), MerkleRoot(hi))
            ELSE Append(MerkleProve(hi, index - h), MerkleRoot(lo))

\* verify_merkle_proof: the root a leaf, its index and its siblings recompute to.
RECURSIVE MerkleRecompute(_, _, _)
MerkleRecompute(digest, index, siblings) ==
    IF siblings = <<>> THEN digest
    ELSE MerkleRecompute(IF index % 2 = 0 THEN two_to_one(digest, siblings[1])
                                          ELSE two_to_one(siblings[1], digest),
                         index \div 2, Tail(siblings))

\* The State of Client::new: two trees with no leaves and no cap.
State_empty ==
    [private_utxo_tree |-> [leaves |-> <<>>, cap |-> <<>>],
     next_index_utxo |-> 0,
     nullify_utxo_tree |-> [leaves |-> <<>>, cap |-> <<>>],
     next_index_nullify |-> 0]

\* A State of the configured height with no leaf inserted.
State_new ==
    LET none == [i \in 1..Pow2(TreeHeight) |-> EmptyLeaf]
    IN [private_utxo_tree |-> MerkleTree_new(none),
        next_index_utxo |-> 0,
        nullify_utxo_tree |-> MerkleTree_new(none),
        next_index_nullify |-> 0]

\* State::add_private_utxo: the leaf goes to next_index_utxo, which is returned.
add_private_utxo(state, leaf) ==
    LET index == state.next_index_utxo
        leaves == [state.private_utxo_tree.leaves EXCEPT ![index + 1] = leaf]
    IN [state |-> [state EXCEPT !.private_utxo_tree = MerkleTree_new(leaves),
                                !.next_index_utxo = index + 1],
        ret |-> index]

\* State::add_nullify_utxo
add_nullify_utxo(state, leaf) ==
    LET index == state.next_index_nullify
        leaves == [state.nullify_utxo_tree.leaves EXCEPT ![index + 1] = leaf]
    IN [state |-> [state EXCEPT !.nullify_utxo_tree = MerkleTree_new(leaves),
                                !.next_index_nullify = index + 1],
        ret |-> index]

\* State::private_utxo_merkle_proof
private_utxo_merkle_proof(state, index) ==
    MerkleProve(state.private_utxo_tree.leaves, index)

\* State::new_demo_state, for every wallet: the seed notes, in the order of the keys.
RECURSIVE seed_notes(_, _)
seed_notes(state, k) ==
    IF k \notin Wallets THEN state
    ELSE seed_notes(add_private_utxo(state, hash_no_pad(k, Token, InitBalance)).state,
                    k + 1)

new_demo_state == seed_notes(State_new, 1)

\* -------------------------------------------------------- proving backend

\* What a fallible call returns.
Ok(v) == [tag |-> "Ok", val |-> <<v>>, msg |-> ""]

Err(m) == [tag |-> "Err", val |-> <<>>, msg |-> m]

Panic(m) == [tag |-> "Panic", val |-> <<>>, msg |-> m]

\* No call was made, or the call returns nothing.
None == [tag |-> "None", val |-> <<>>, msg |-> ""]

\* A proof of the leaf circuit: the public inputs it attests, and whether the
\* backend's verifier accepts it.
LeafProof(public_inp, valid) ==
    [children |-> <<>>, public_inputs |-> <<public_inp>>, valid |-> valid]

\* A proof of a recursive circuit over two child proofs.
NodeProof(inner1, inner2, valid) ==
    [children |-> <<inner1, inner2>>, public_inputs |-> <<>>, valid |-> valid]

\* circuit::gen_private_proof: a proof exists when the witness opens, at its index
\* and in the tree of the public root, the leaf that the nullifier equals.
gen_private_proof(public_inp, p_witness) ==
    LET leaf == hash_no_pad(p_witness.private_key, p_witness.token_id,
                            p_witness.token_amount)
    IN IF /\ MerkleRecompute(leaf, p_witness.index, p_witness.merkle_proof)
                = public_inp.merkle_root_value
          /\ public_inp.nullifier_value = leaf
       THEN Ok(LeafProof(public_inp, TRUE))
       ELSE Err("proof generation failed")

\* CircuitData::verify, of the leaf circuit.
circuit_data_verify(proof) == proof.children = <<>> /\ proof.valid

\* circuit::recursive_circuit and gen_recursive_circuit: the recursive circuit
\* claims that both child proofs verify; proving it fails when one does not.
gen_recursive_circuit(inner1, inner2) ==
    IF inner1.valid /\ inner2.valid
    THEN Ok(NodeProof(inner1, inner2, TRUE))
    ELSE Err("recursive proof generation failed")

\* ---------------------------------------------------------------- Server

\* Server::new
Server_new(state) == [state |-> state, proofs |-> <<>>]

\* A slip of verify_and_update_state: the root is not compared.
verify_and_update_state_no_root_check(self, proof, public_inp) ==
    IF circuit_data_verify(proof)
    THEN LET n == add_nullify_utxo(self.state, public_inp.nullifier_value)
             u == add_private_utxo(n.state, public_inp.new_leaf_value)
         IN [self |-> [state |-> u.state, proofs |-> Append(self.proofs, proof)],
             ret |-> Ok(u.ret)]
    ELSE [self |-> self, ret |-> Err("proof verification failed")]

\* A slip of verify_and_update_state: the nullifier is inserted before the proof
\* is verified.
verify_and_update_state_nullify_first(self, proof, public_inp) ==
    LET current_utxo_root == self.state.private_utxo_tree.cap[1]
    IN IF current_utxo_root # public_inp.merkle_root_value
       THEN [self |-> self, ret |-> Err("wrong merkle roof value")]
       ELSE LET n == add_nullify_utxo(self.state, public_inp.nullifier_value)
            IN IF circuit_data_verify(proof)
               THEN LET u == add_private_utxo(n.state, public_inp.new_leaf_value)
                    IN [self |-> [state |-> u.state,
                                  proofs |-> Append(self.proofs, proof)],
                        ret |-> Ok(u.ret)]
               ELSE [self |-> [self EXCEPT !.state = n.state],
                     ret |-> Err("proof verification failed")]

\* A slip of verify_and_update_state: the two leaves go to each other's tree.
verify_and_update_state_swapped(self, proof, public_inp) ==
    LET current_utxo_root == self.state.private_utxo_tree.cap[1]
    IN IF current_utxo_root # public_inp.merkle_root_value
       THEN [self |-> self, ret |-> Err("wrong merkle roof value")]
       ELSE IF circuit_data_verify(proof)
            THEN LET n == add_nullify_utxo(self.state, public_inp.new_leaf_value)
                     u == add_private_utxo(n.state, public_inp.nullifier_value)
                 IN [self |-> [state |-> u.state, proofs |-> Append(self.proofs, proof)],
                     ret |-> Ok(u.ret)]
            ELSE [self |-> self, ret |-> Err("proof verification failed")]

\* A slip of verify_and_update_state: the proof is logged before it is verified.
verify_and_update_state_log_first(self, proof, public_inp) ==
    LET current_utxo_root == self.state.private_utxo_tree.cap[1]
        logged == [self EXCEPT !.proofs = Append(self.proofs, proof)]
    IN IF current_utxo_root # public_inp.merkle_root_value
       THEN [self |-> self, ret |-> Err("wrong merkle roof value")]
       ELSE IF circuit_data_verify(proof)
            THEN LET n == add_nullify_utxo(self.state, public_inp.nullifier_value)
                     u == add_private_utxo(n.state, public_inp.new_leaf_value)
                 IN [self |-> [logged EXCEPT !.state = u.state], ret |-> Ok(u.ret)]
            ELSE [self |-> logged, ret |-> Err("proof verification failed")]

\* A slip of verify_and_update_state: the new note is not inserted.
verify_and_update_state_no_note(self, proof, public_inp) ==
    LET current_utxo_root == self.state.private_utxo_tree.cap[1]
    IN IF current_utxo_root # public_inp.merkle_root_value
       THEN [self |-> self, ret |-> Err("wrong merkle roof value")]
       ELSE IF circuit_data_verify(proof)
            THEN LET n == add_nullify_utxo(self.state, public_inp.nullifier_value)
                 IN [self |-> [state |-> n.state, proofs |-> Append(self.proofs, proof)],
                     ret |-> Ok(n.state.next_index_utxo)]
            ELSE [self |-> self, ret |-> Err("proof verification failed")]

\* A slip of verify_and_update_state: the verifier's answer is ignored.
verify_and_update_state_unverified(self, proof, public_inp) ==
    LET current_utxo_root == self.state.private_utxo_tree.cap[1]
    IN IF current_utxo_root # public_inp.merkle_root_value
       THEN [self |-> self, ret |-> Err("wrong merkle roof value")]
       ELSE LET n == add_nullify_utxo(self.state, public_inp.nullifier_value)
                u == add_private_utxo(n.state, public_inp.new_leaf_value)
            IN [self |-> [state |-> u.state, proofs |-> Append(self.proofs, proof)],
                ret |-> Ok(u.ret)]

\* A slip of verify_and_update_state: the proof goes to the front of the ProofLog.
verify_and_update_state_prepend(self, proof, public_inp) ==
    LET current_utxo_root == self.state.private_utxo_tree.cap[1]
    IN IF current_utxo_root # public_inp.merkle_root_value
       THEN [self |-> self, ret |-> Err("wrong merkle roof value")]
       ELSE IF circuit_data_verify(proof)
            THEN LET n == add_nullify_utxo(self.state, public_inp.nullifier_value)
                     u == add_private_utxo(n.state, public_inp.new_leaf_value)
                 IN [self |-> [state |-> u.state, proofs |-> <<proof>> \o self.proofs],
                     ret |-> Ok(u.ret)]
            ELSE [self |-> self, ret |-> Err("proof verification failed")]

\* A slip of verify_and_update_state: the spent note is taken out of the note
\* accumulator.
verify_and_update_state_removes_spent(self, proof, public_inp) ==
    LET current_utxo_root == self.state.private_utxo_tree.cap[1]
    IN IF current_utxo_root # public_inp.merkle_root_value
       THEN [self |-> self, ret |-> Err("wrong merkle roof value")]
       ELSE IF circuit_data_verify(proof)
            THEN LET n == add_nullify_utxo(self.state, public_inp.nullifier_value)
                     notes == n.state.private_utxo_tree.leaves
                     kept == [i \in DOMAIN notes |->
                                 IF notes[i] = public_inp.nullifier_value
                                 THEN EmptyLeaf ELSE notes[i]]
                     u == add_private_utxo(
                              [n.state EXCEPT !.private_utxo_tree = MerkleTree_new(kept)],
                              public_inp.new_leaf_value)
                 IN [self |-> [state |-> u.state, proofs |-> Append(self.proofs, proof)],
                     ret |-> Ok(u.ret)]
            ELSE [self |-> self, ret |-> Err("proof verification failed")]

\* A slip of verify_and_update_state: a stale submission is refused but its proof
\* is logged.
verify_and_update_state_logs_stale(self, proof, public_inp) ==
    LET current_utxo_root == self.state.private_utxo_tree.cap[1]
    IN IF current_utxo_root # public_inp.merkle_root_value
       THEN [self |-> [self EXCEPT !.proofs = Append(self.proofs, proof)],
             ret |-> Err("wrong merkle roof value")]
       ELSE IF circuit_data_verify(proof)
            THEN LET n == add_nullify_utxo(self.state, public_inp.nullifier_value)
                     u == add_private_utxo(n.state, public_inp.new_leaf_value)
                 IN [self |-> [state |-> u.state, proofs |-> Append(self.proofs, proof)],
                     ret |-> Ok(u.ret)]
            ELSE [self |-> self, ret |-> Err("proof verification failed")]

\* A variant of verify_and_update_state that refuses a nullifier it already holds.
verify_and_update_state_unique_nullifier(self, proof, public_inp) ==
    LET current_utxo_root == self.state.private_utxo_tree.cap[1]
        nullifiers == self.state.nullify_utxo_tree.leaves
    IN IF current_utxo_root # public_inp.merkle_root_value
       THEN [self |-> self, ret |-> Err("wrong merkle roof value")]
       ELSE IF \E i \in 1..self.state.next_index_nullify :
                  nullifiers[i] = public_inp.nullifier_value
       THEN [self |-> self, ret |-> Err("nullifier already spent")]
       ELSE IF circuit_data_verify(proof)
            THEN LET n == add_nullify_utxo(self.state, public_inp.nullifier_value)
                     u == add_private_utxo(n.state, public_inp.new_leaf_value)
                 IN [self |-> [state |-> u.state, proofs |-> Append(self.proofs, proof)],
                     ret |-> Ok(u.ret)]
            ELSE [self |-> self, ret |-> Err("proof verification failed")]

\* A slip of verify_and_update_state: the index of the nullifier is returned.
verify_and_update_state_returns_nullify_index(self, proof, public_inp) ==
    LET current_utxo_root == self.state.private_utxo_tree.cap[1]
    IN IF current_utxo_root # public_inp.merkle_root_value
       THEN [self |-> self, ret |-> Err("wrong merkle roof value")]
       ELSE IF circuit_data_verify(proof)
            THEN LET n == add_nullify_utxo(self.state, public_inp.nullifier_value)
                     u == add_private_utxo(n.state, public_inp.new_leaf_value)
                 IN [self |-> [state |-> u.state, proofs |-> Append(self.proofs, proof)],
                     ret |-> Ok(n.ret)]
            ELSE [self |-> self, ret |-> Err("proof verification failed")]

\* Server::verify_and_update_state: the server after the call and what it returns.
verify_and_update_state(self, proof, public_inp) ==
    LET current_utxo_root == self.state.private_utxo_tree.cap[1]
    IN IF current_utxo_root # public_inp.merkle_root_value
       THEN [self |-> self, ret |-> Err("wrong merkle roof value")]
       ELSE IF circuit_data_verify(proof)
            THEN LET n == add_nullify_utxo(self.state, public_inp.nullifier_value)
                     u == add_private_utxo(n.state, public_inp.new_leaf_value)
                 IN [self |-> [state |-> u.state, proofs |-> Append(self.proofs, proof)],
                     ret |-> Ok(u.ret)]
            ELSE [self |-> self, ret |-> Err("proof verification failed")]

\* A slip of get_recursive_proof: the range is split after its first index.
RECURSIVE get_recursive_proof_mid_left(_, _, _, _)
get_recursive_proof_mid_left(self, left, right, depth) ==
    IF depth = 0 THEN Panic("stack overflow")
    ELSE IF left = right
    THEN IF left < Len(self.proofs)
         THEN Ok(self.proofs[left + 1])
         ELSE Panic("index out of bounds")
    ELSE LET mid == IF left < right THEN left ELSE right
             inner1 == get_recursive_proof_mid_left(self, left, mid, depth - 1)
         IN IF inner1.tag = "Panic" THEN inner1
            ELSE LET inner2 == get_recursive_proof_mid_left(self, mid + 1, right, depth - 1)
                 IN IF inner2.tag = "Panic" THEN inner2
                    ELSE LET p == gen_recursive_circuit(inner1.val[1], inner2.val[1])
                         IN IF p.tag = "Err"
                            THEN Panic("called Result::unwrap() on an Err value")
                            ELSE p

\* A slip of get_recursive_proof: the halves are passed to the recursive circuit
\* in the other order.
RECURSIVE get_recursive_proof_swapped(_, _, _, _)
get_recursive_proof_swapped(self, left, right, depth) ==
    IF depth = 0 THEN Panic("stack overflow")
    ELSE IF left = right
    THEN IF left < Len(self.proofs)
         THEN Ok(self.proofs[left + 1])
         ELSE Panic("index out of bounds")
    ELSE LET mid == (left + right) \div 2
             inner1 == get_recursive_proof_swapped(self, left, mid, depth - 1)
         IN IF inner1.tag = "Panic" THEN inner1
            ELSE LET inner2 == get_recursive_proof_swapped(self, mid + 1, right, depth - 1)
                 IN IF inner2.tag = "Panic" THEN inner2
                    ELSE LET p == gen_recursive_circuit(inner2.val[1], inner1.val[1])
                         IN IF p.tag = "Err"
                            THEN Panic("called Result::unwrap() on an Err value")
                            ELSE p

\* Server::get_recursive_proof, with `depth` call-stack frames left.
RECURSIVE get_recursive_proof(_, _, _, _)
get_recursive_proof(self, left, right, depth) ==
    IF depth = 0 THEN Panic("stack overflow")
    ELSE IF left = right
    THEN IF left < Len(self.proofs)
         THEN Ok(self.proofs[left + 1])
         ELSE Panic("index out of bounds")
    ELSE LET mid == (left + right) \div 2
             inner1 == get_recursive_proof(self, left, mid, depth - 1)
         IN IF inner1.tag = "Panic" THEN inner1
            ELSE LET inner2 == get_recursive_proof(self, mid + 1, right, depth - 1)
                 IN IF inner2.tag = "Panic" THEN inner2
                    ELSE LET p == gen_recursive_circuit(inner1.val[1], inner2.val[1])
                         IN IF p.tag = "Err"
                            THEN Panic("called Result::unwrap() on an Err value")
                            ELSE p

\* Server::get_state
get_state(self) == self.state

\* ---------------------------------------------------------------- Client

\* Client::new
Client_new(priv_key, token_id, balance, priv_index) ==
    [state |-> State_empty,
     priv_key |-> priv_key,
     token_id |-> token_id,
     balance |-> balance,
     priv_index |-> priv_index]

\* Client::get_state_from_server
get_state_from_server(self, srv) == [self EXCEPT !.state = get_state(srv)]

\* split_and_submit without the closing get_state_from_server.
split_and_submit_no_resync(self, delta, srv) ==
    IF ~(delta <= self.balance)
    THEN [self |-> self, server |-> srv, verify_ret |-> None,
          ret |-> Panic("cannot split more than what you have")]
    ELSE IF self.state.private_utxo_tree.cap = <<>>
    THEN [self |-> self, server |-> srv, verify_ret |-> None,
          ret |-> Panic("index out of bounds")]
    ELSE LET public_inp ==
                 [nullifier_value |-> hash_no_pad(self.priv_key, self.token_id, self.balance),
                  merkle_root_value |-> self.state.private_utxo_tree.cap[1],
                  new_leaf_value |->
                      hash_no_pad(self.priv_key, self.token_id, self.balance - delta)]
             p_witness == [private_key |-> self.priv_key,
                           index |-> self.priv_index,
                           token_id |-> self.token_id,
                           token_amount |-> self.balance,
                           merkle_proof |->
                               private_utxo_merkle_proof(self.state, self.priv_index)]
             proof == gen_private_proof(public_inp, p_witness)
         IN IF proof.tag = "Err"
            THEN [self |-> self, server |-> srv, verify_ret |-> None, ret |-> proof]
            ELSE LET v == verify_and_update_state(srv, proof.val[1], public_inp)
                 IN IF v.ret.tag = "Err"
                    THEN [self |-> self, server |-> v.self, verify_ret |-> v.ret,
                          ret |-> Panic("called Result::unwrap() on an Err value")]
                    ELSE [self |-> [self EXCEPT !.priv_index = v.ret.val[1],
                                                !.balance = self.balance - delta],
                          server |-> v.self,
                          verify_ret |-> v.ret,
                          ret |-> Ok("unit")]

\* Client::split_and_submit: the client and the server after the call, what the
\* call returns and what verify_and_update_state returned to it, if it was called.
split_and_submit(self, delta, srv) ==
    IF ~(delta <= self.balance)
    THEN [self |-> self, server |-> srv, verify_ret |-> None,
          ret |-> Panic("cannot split more than what you have")]
    ELSE IF self.state.private_utxo_tree.cap = <<>>
    THEN [self |-> self, server |-> srv, verify_ret |-> None,
          ret |-> Panic("index out of bounds")]
    ELSE LET old_private_tree_hash == hash_no_pad(self.priv_key, self.token_id, self.balance)
             merkle_proof == private_utxo_merkle_proof(self.state, self.priv_index)
             old_root == self.state.private_utxo_tree.cap[1]
             new_private_tree_hash ==
                 hash_no_pad(self.priv_key, self.token_id, self.balance - delta)
             p_witness == [private_key |-> self.priv_key,
                           index |-> self.priv_index,
                           token_id |-> self.token_id,
                           token_amount |-> self.balance,
                           merkle_proof |-> merkle_proof]
             public_inp == [nullifier_value |-> old_private_tree_hash,
                            merkle_root_value |-> old_root,
                            new_leaf_value |-> new_private_tree_hash]
             proof == gen_private_proof(public_inp, p_witness)
         IN IF proof.tag = "Err"
            THEN [self |-> self, server |-> srv, verify_ret |-> None, ret |-> proof]
            ELSE LET v == verify_and_update_state(srv, proof.val[1], public_inp)
                 IN IF v.ret.tag = "Err"
                    THEN [self |-> self, server |-> v.self, verify_ret |-> v.ret,
                          ret |-> Panic("called Result::unwrap() on an Err value")]
                    ELSE [self |-> get_state_from_server(
                                       [self EXCEPT !.priv_index = v.ret.val[1],
                                                    !.balance = self.balance - delta],
                                       v.self),
                          server |-> v.self,
                          verify_ret |-> v.ret,
                          ret |-> Ok("unit")]

\* ---------------------------------------------------------------- ledger

\* main: the demo state, its Server, and one Client per wallet.
LedgerInit ==
    /\ server = Server_new(new_demo_state)
    /\ clients = [k \in Wallets |-> Client_new(k, Token, InitBalance, k - 1)]
    /\ verify_ret = None
    /\ split_ret = None
    /\ fold_ret = None
    /\ accepted = 0
    /\ splits = <<>>

\* A panic ends the process.
Panicked == split_ret.tag = "Panic" \/ fold_ret.tag = "Panic"

\* The model stops when the ProofLog or an accumulator is full.
Full ==
    \/ Len(server.proofs) >= MaxProofs
    \/ server.state.next_index_utxo >= Pow2(TreeHeight)
    \/ server.state.next_index_nullify >= Pow2(TreeHeight)

Accepted(ret) == IF ret.tag = "Ok" THEN 1 ELSE 0

\* A wallet re-syncs its mirror.
GetStateFromServer(k) ==
    /\ ~Panicked
    /\ clients[k].state # server.state
    /\ clients' = [clients EXCEPT ![k] = get_state_from_server(clients[k], server)]
    /\ verify_ret' = None
    /\ split_ret' = None
    /\ fold_ret' = None
    /\ UNCHANGED <<server, accepted, splits>>
    /\ UNCHANGED chVars

\* A wallet splits `delta` off its note.
SplitAndSubmit(k, delta) ==
    /\ ~Panicked
    /\ ~Full
    /\ LET r == split_and_submit(clients[k], delta, server)
       IN /\ clients' = [clients EXCEPT ![k] = r.self]
          /\ server' = r.server
          /\ verify_ret' = r.verify_ret
          /\ split_ret' = r.ret
          /\ accepted' = accepted + Accepted(r.verify_ret)
          /\ splits' = IF r.ret.tag = "Ok" THEN Append(splits, <<k, delta>>) ELSE splits
    /\ fold_ret' = None
    /\ UNCHANGED chVars

\* The public inputs a submitter knows: those of the logged proofs and the spend of
\* the first seed note.
KnownInputs ==
    {server.proofs[i].public_inputs[1] : i \in DOMAIN server.proofs}
    \cup {[nullifier_value |-> hash_no_pad(1, Token, InitBalance),
           merkle_root_value |-> new_demo_state.private_utxo_tree.cap[1],
           new_leaf_value |-> hash_no_pad(1, Token, InitBalance - 1)]}

\* The roots a submitter may name: the current root, the first root, and the root
\* of no ledger state.
KnownRoots ==
    {server.state.private_utxo_tree.cap[1],
     new_demo_state.private_utxo_tree.cap[1],
     State_new.private_utxo_tree.cap[1]}

\* What a submitter may pass, as <<proof, public_inp>>: a logged proof beside its
\* public inputs with any known root, or a proof the backend rejects beside any
\* known public inputs.
Submissions ==
    {<<server.proofs[i], [server.proofs[i].public_inputs[1] EXCEPT !.merkle_root_value = r]>> :
        i \in DOMAIN server.proofs, r \in KnownRoots}
    \cup {<<LeafProof([p EXCEPT !.merkle_root_value = r], FALSE),
            [p EXCEPT !.merkle_root_value = r]>> :
              p \in KnownInputs, r \in KnownRoots}

\* Any caller submits a proof and public inputs to the coordinator.
Submit(proof, public_inp) ==
    /\ ~Panicked
    /\ ~Full
    /\ LET v == verify_and_update_state(server, proof, public_inp)
       IN /\ server' = v.self
          /\ verify_ret' = v.ret
          /\ accepted' = accepted + Accepted(v.ret)
    /\ split_ret' = None
    /\ fold_ret' = None
    /\ UNCHANGED <<clients, splits>>
    /\ UNCHANGED chVars

\* Any caller asks for the aggregate of a range of the ProofLog.
GetRecursiveProof(left, right) ==
    /\ ~Panicked
    /\ fold_ret' = get_recursive_proof(server, left, right, MaxFoldDepth)
    /\ verify_ret' = None
    /\ split_ret' = None
    /\ UNCHANGED <<server, clients, accepted, splits>>
    /\ UNCHANGED chVars

Next ==
    \/ \E k \in Wallets : GetStateFromServer(k)
    \/ \E k \in Wallets, delta \in Deltas : SplitAndSubmit(k, delta)
    \/ \E s \in Submissions : Submit(s[1], s[2])

\* main's scenario: the first wallet splits, anyone submits, and ranges of the
\* ProofLog are aggregated.
FoldNext ==
    \/ GetStateFromServer(1)
    \/ \E delta \in {0, 1} : SplitAndSubmit(1, delta)
    \/ \E s \in Submissions : Submit(s[1], s[2])
    \/ \E left \in 0..Len(server.proofs), right \in 0..Len(server.proofs) :
          GetRecursiveProof(left, right)

\* ------------------------------------------------------------ transcript

TranscriptInit ==
    /\ challenger = Challenger_new
    /\ recursive_challenger = RecursiveChallenger_new
    /\ builder = <<>>
    /\ outputs = <<>>
    /\ recursive_outputs = <<>>
    /\ ncalls = 0
    /\ calls = <<>>

Init ==
    /\ TranscriptInit
    /\ LedgerInit

\* Both transcripts observe the same prover message, the recursive one as a constant
\* target (tests::test_consistency).
ObserveElement(v) ==
    /\ ncalls < MaxCalls
    /\ challenger' = observe_element(challenger, Elem(v))
    /\ recursive_challenger' = r_observe_element(recursive_challenger, builder_constant(v))
    /\ ncalls' = ncalls + 1
    /\ calls' = Append(calls, v)
    /\ UNCHANGED <<builder, outputs, recursive_outputs>>
    /\ UNCHANGED ledgerVars

\* Both transcripts are asked for one challenge.
GetChallenge ==
    /\ ncalls < MaxCalls
    /\ LET c == get_challenge(challenger)
           r == r_get_challenge(recursive_challenger, builder)
       IN /\ challenger' = c.self
          /\ outputs' = Append(outputs, c.ret)
          /\ recursive_challenger' = r.self
          /\ builder' = r.builder
          /\ recursive_outputs' = Append(recursive_outputs, r.ret)
    /\ ncalls' = ncalls + 1
    /\ calls' = Append(calls, 0)
    /\ UNCHANGED ledgerVars

ChNext ==
    \/ \E v \in Vals : ObserveElement(v)
    \/ GetChallenge

\* The transcripts alone.
ChallengerSpec == Init /\ [][ChNext]_vars

\* The ledger: wallets and submitters.
Spec == Init /\ [][Next]_vars

\* The ledger and the aggregation of its ProofLog.
FoldSpec == Init /\ [][FoldNext]_vars

\* ------------------------------------------------------------- claims

\* C1: after every call, the recursive transcript's state and the challenges it
\* returned, evaluated in the witness of the circuit built so far, equal the
\* native transcript's state and challenges, element for element.
C1_NativeCircuitEquivalence ==
    /\ witness_get_targets(builder, recursive_outputs) = outputs
    /\ witness_get_targets(builder, recursive_challenger.sponge_state)
           = challenger.sponge_state
    /\ witness_get_targets(builder, recursive_challenger.input_buffer)
           = challenger.input_buffer
    /\ witness_get_targets(builder, recursive_challenger.output_buffer)
           = challenger.output_buffer

\* One round absorbed a full chunk of messages, one permutation was a squeeze of
\* the state the permutation before it left, and outputs are still buffered.
C1_Witness ==
    /\ Len(outputs) >= SPONGE_RATE + 2
    /\ Len(builder) >= 4
    /\ \E g \in DOMAIN builder :
           \A i \in 1..SPONGE_RATE : builder[g][i][1] = 0 /\ builder[g][i][2] \in Vals
    /\ \E g \in DOMAIN builder :
           \A i \in 1..SPONGE_WIDTH : builder[g][i] = <<g - 1, i>>
    /\ challenger.output_buffer # <<>>

\* The root of the note accumulator of a server.
current_root(srv) == srv.state.private_utxo_tree.cap[1]

StaleRootError == Err("wrong merkle roof value")

VerificationError == Err("proof verification failed")

\* C2: in every reachable ledger state, a submission whose merkle_root_value is not
\* the note accumulator's root is answered by the stale-root error and changes
\* nothing of the server (accumulators, next-free indices, ProofLog).
C2_StaleRootNoMutation ==
    /\ [](\A s \in Submissions :
            s[2].merkle_root_value # current_root(server) =>
               LET v == verify_and_update_state(server, s[1], s[2])
               IN v.ret = StaleRootError /\ v.self = server)
    /\ [][verify_ret' = StaleRootError => server' = server /\ accepted' = accepted]_vars

\* A submission was rejected as stale by a ledger that had accepted one before.
C2_Witness == verify_ret = StaleRootError /\ accepted >= 1

\* C3: a submission naming the current root whose proof the backend rejects is
\* answered by the verification error and changes nothing of the server.
C3_VerificationFailureNoMutation ==
    /\ [](\A s \in Submissions :
            (s[2].merkle_root_value = current_root(server) /\ ~circuit_data_verify(s[1])) =>
               LET v == verify_and_update_state(server, s[1], s[2])
               IN v.ret = VerificationError /\ v.self = server)
    /\ [][verify_ret' = VerificationError => server' = server /\ accepted' = accepted]_vars

\* A proof was rejected by the backend in a ledger that had accepted one before.
C3_Witness == verify_ret = VerificationError /\ accepted >= 1

\* The server after an accepted submission of `proof` beside `public_inp`.
accepted_update(srv, proof, public_inp) ==
    LET nullifiers == [srv.state.nullify_utxo_tree.leaves
                          EXCEPT ![srv.state.next_index_nullify + 1] = public_inp.nullifier_value]
        notes == [srv.state.private_utxo_tree.leaves
                     EXCEPT ![srv.state.next_index_utxo + 1] = public_inp.new_leaf_value]
    IN [state |-> [private_utxo_tree |-> [leaves |-> notes, cap |-> <<MerkleRoot(notes)>>],
                   next_index_utxo |-> srv.state.next_index_utxo + 1,
                   nullify_utxo_tree |-> [leaves |-> nullifiers,
                                          cap |-> <<MerkleRoot(nullifiers)>>],
                   next_index_nullify |-> srv.state.next_index_nullify + 1],
        proofs |-> srv.proofs \o <<proof>>]

\* C4: a submission naming the current root whose proof verifies puts exactly its
\* nullifier_value at the end of the nullifier accumulator, exactly its
\* new_leaf_value at the end of the note accumulator and the proof at the end of
\* the ProofLog, and returns the note accumulator's next-free index of before.
C4_AcceptedUpdate ==
    /\ [](\A s \in Submissions :
            (s[2].merkle_root_value = current_root(server) /\ circuit_data_verify(s[1])) =>
               LET v == verify_and_update_state(server, s[1], s[2])
               IN /\ v.ret = Ok(server.state.next_index_utxo)
                  /\ v.self = accepted_update(server, s[1], s[2]))
    /\ [][verify_ret'.tag = "Ok" =>
            /\ verify_ret' = Ok(server.state.next_index_utxo)
            /\ server' = accepted_update(
                   server, server'.proofs[Len(server'.proofs)],
                   [nullifier_value |-> server'.state.nullify_utxo_tree.leaves[
                                           server.state.next_index_nullify + 1],
                    merkle_root_value |-> current_root(server),
                    new_leaf_value |-> server'.state.private_utxo_tree.leaves[
                                          server.state.next_index_utxo + 1]])]_vars

\* A submission was accepted by a ledger that had accepted one before, and went to
\* the second free slot of both accumulators.
C4_Witness ==
    /\ verify_ret = Ok(Cardinality(Wallets) + 1)
    /\ Len(server.proofs) = 2
    /\ server.state.next_index_nullify = 2

\* The slots of a tree that hold a leaf.
inserted(tree) == {i \in DOMAIN tree.leaves : tree.leaves[i] # EmptyLeaf}

\* C5: in every reachable state the note leaves added since bootstrap, the nullifier
\* leaves added since bootstrap and the proofs of the ProofLog all number the
\* accepted submissions.
C5_NoPartialUpdate ==
    /\ server.state.next_index_utxo - Cardinality(Wallets) = accepted
    /\ Cardinality(inserted(server.state.private_utxo_tree)) - Cardinality(Wallets) = accepted
    /\ server.state.next_index_nullify = accepted
    /\ Cardinality(inserted(server.state.nullify_utxo_tree)) = accepted
    /\ Len(server.proofs) = accepted

\* A submission was rejected after two were accepted.
C5_Witness == accepted >= 2 /\ verify_ret.tag = "Err"

\* C7: the challenges returned are pairwise distinct: no output slot of a
\* permutation application is returned by two get_challenge calls.
C7_NoDuplicateChallenges ==
    \A i \in DOMAIN outputs : \A j \in DOMAIN outputs : i # j => outputs[i] # outputs[j]

\* After messages were absorbed, a batch of more challenges than the rate was
\* asked for: the last of them comes from a refill of the state that gave the
\* SPONGE_RATE challenges before it.
C7_Witness ==
    \E k \in DOMAIN outputs :
        /\ k + SPONGE_RATE \in DOMAIN outputs
        /\ outputs[k][1][1][1] = <<>>
        /\ outputs[k][1][1][2] \in Vals
        /\ \A j \in 1..SPONGE_RATE :
              outputs[k + SPONGE_RATE][1][j] = outputs[k + SPONGE_RATE - j]
        /\ Len(outputs) > k + SPONGE_RATE

\* Every leaf inserted in a tree, with the proof of its index, recomputes the cap.
proofs_recompute(tree, next_index) ==
    \A i \in 0..(next_index - 1) :
        MerkleRecompute(tree.leaves[i + 1], i, MerkleProve(tree.leaves, i)) = tree.cap[1]

\* C8: in the server's state and in every synced mirror, the proof of every
\* inserted leaf recomputes to the root of that same state; an accepted
\* submission changes the root of the note accumulator, so the root of before is
\* no longer the current root.
C8_AccumulatorRoundTrip ==
    /\ [](/\ proofs_recompute(server.state.private_utxo_tree, server.state.next_index_utxo)
          /\ proofs_recompute(server.state.nullify_utxo_tree, server.state.next_index_nullify)
          /\ \A k \in Wallets :
                clients[k].state # State_empty =>
                   /\ private_utxo_merkle_proof(clients[k].state, clients[k].priv_index)
                         = MerkleProve(clients[k].state.private_utxo_tree.leaves,
                                       clients[k].priv_index)
                   /\ proofs_recompute(clients[k].state.private_utxo_tree,
                                       clients[k].state.next_index_utxo)
          /\ \A s \in Submissions :
                LET v == verify_and_update_state(server, s[1], s[2])
                IN v.ret.tag = "Ok" =>
                     /\ current_root(v.self) # current_root(server)
                     /\ s[2].merkle_root_value # current_root(v.self))
    /\ [][verify_ret'.tag = "Ok" => current_root(server') # current_root(server)]_vars

\* Three submissions were accepted, the last of a wallet whose note is not the
\* first leaf.
C8_Witness ==
    /\ accepted >= 3
    /\ verify_ret.tag = "Ok"
    /\ \E k \in Wallets : split_ret.tag = "Ok" /\ clients[k].priv_index >= 3

\* The verifier accepts a proof: the proof and every proof below it verify.
RECURSIVE verifies(_)
verifies(proof) ==
    /\ proof.valid
    /\ \A i \in DOMAIN proof.children : verifies(proof.children[i])

C10_InsufficientBalanceIsError ==
    [][\A k \in Wallets : \A delta \in Deltas :
          (delta > clients[k].balance /\ SplitAndSubmit(k, delta)) =>
             /\ split_ret'.tag = "Err"
             /\ UNCHANGED <<server, clients, accepted>>]_vars

\* The sum of the deltas wallet k split off, over the calls of `seq`.
RECURSIVE spent(_, _)
spent(k, seq) ==
    IF seq = <<>> THEN 0
    ELSE LET last == seq[Len(seq)]
         IN spent(k, SubSeq(seq, 1, Len(seq) - 1)) + (IF last[1] = k THEN last[2] ELSE 0)

\* The number of notes the ledger was seeded with.
seeded == new_demo_state.next_index_utxo

\* C11: after the split_and_submit calls of a wallet that returned Ok, with deltas
\* d_1..d_m, its balance is its first balance minus their sum; right after such a
\* call the wallet's index is the index the submission returned and its mirror is
\* the server's state; and as long as only wallets' splits were accepted, the note
\* accumulator holds one leaf more per split.
C11_WalletAfterSplits ==
    /\ \A k \in Wallets : clients[k].balance = InitBalance - spent(k, splits)
    /\ split_ret.tag = "Ok" =>
          LET k == splits[Len(splits)][1]
          IN /\ verify_ret.tag = "Ok"
             /\ clients[k].priv_index = verify_ret.val[1]
             /\ clients[k].state = server.state
    /\ accepted = Len(splits) =>
          server.state.next_index_utxo = seeded + Len(splits)

\* The first wallet split twice, nothing else was accepted, and its second split
\* has just returned.
C11_Witness ==
    /\ splits = <<<<1, 1>>, <<1, 1>>>>
    /\ split_ret.tag = "Ok"
    /\ accepted = 2
    /\ clients[1].balance = InitBalance - 2

\* C12: no step removes, reorders or changes an entry of the ProofLog, and a step
\* that did not call verify_and_update_state (get_recursive_proof, get_state, a
\* split that stopped before submitting) changes nothing of the server.
C12_ProofLogAppendOnly ==
    [][/\ Len(server'.proofs) >= Len(server.proofs)
       /\ SubSeq(server'.proofs, 1, Len(server.proofs)) = server.proofs
       /\ fold_ret'.tag # "None" => server' = server
       /\ verify_ret'.tag = "None" => server' = server]_vars

\* A range of a ProofLog of two proofs has just been aggregated.
C12_Witness ==
    /\ Len(server.proofs) = 2
    /\ fold_ret.tag = "Ok"
    /\ fold_ret.val[1].children = <<server.proofs[1], server.proofs[2]>>

\* One step of an accumulator of `next_index` leaves: the leaves it holds stay,
\* and it gains no leaf or one leaf, at next_index.
appended(tree, next_index, tree2, next_index2) ==
    /\ \A i \in 1..next_index : tree2.leaves[i] = tree.leaves[i]
    /\ \/ next_index2 = next_index /\ tree2 = tree
       \/ /\ next_index2 = next_index + 1
          /\ tree2.leaves[next_index + 1] # EmptyLeaf
          /\ \A i \in (next_index + 2)..Len(tree.leaves) : tree2.leaves[i] = tree.leaves[i]

\* C13: in both accumulators the slots that hold a leaf are the first
\* next_free_index slots, and every step keeps every inserted leaf where it is
\* and inserts at most one leaf, at next_free_index, which then grows by one.
C13_AccumulatorsAppendOnly ==
    /\ [](/\ inserted(server.state.private_utxo_tree) = 1..server.state.next_index_utxo
          /\ inserted(server.state.nullify_utxo_tree) = 1..server.state.next_index_nullify)
    /\ [][/\ appended(server.state.private_utxo_tree, server.state.next_index_utxo,
                       server'.state.private_utxo_tree, server'.state.next_index_utxo)
           /\ appended(server.state.nullify_utxo_tree, server.state.next_index_nullify,
                       server'.state.nullify_utxo_tree, server'.state.next_index_nullify)]_vars

\* Three submissions were accepted: the note accumulator holds the seeds and three
\* leaves more, the nullifier accumulator three.
C13_Witness ==
    /\ accepted = 3
    /\ server.state.next_index_utxo = seeded + 3
    /\ server.state.next_index_nullify = 3
    /\ verify_ret.tag = "Ok"

\* A field element that is a prover message.
is_message(e) == e[1] = <<>> /\ e[2] \in Vals

\* The messages written into the sponge up to the state `state`, which a
\* permutation read: those of the states before it, found through the capacity
\* slot that no absorption overwrites, then those written into its rate slots.
RECURSIVE absorbed(_)
absorbed(state) ==
    LET capacity == state[SPONGE_WIDTH]
        before == IF capacity[1] = <<>> THEN <<>> ELSE absorbed(capacity[1])
    IN before \o SelectSeq(SubSeq(state, 1, SPONGE_RATE), is_message)

\* The positions of the get_challenge calls among the calls.
get_positions == SelectSeq([p \in 1..Len(calls) |-> p], LAMBDA p : calls[p] = 0)

\* The messages observed before call p, in order.
observed_before(p) ==
    LET messages == SelectSeq(SubSeq(calls, 1, p - 1), LAMBDA v : v # 0)
    IN [i \in 1..Len(messages) |-> Elem(messages[i])]

\* C14: right after observe_element(e) the output_buffer is empty and e is the
\* last element of the input_buffer; and every challenge returned is a slot of a
\* permutation of a state into which every message observed before that call had
\* been written, so none is a challenge that was buffered before one of them.
C14_ObserveInvalidatesOutputs ==
    /\ calls # <<>> /\ calls[Len(calls)] # 0 =>
          /\ challenger.output_buffer = <<>>
          /\ challenger.input_buffer # <<>>
          /\ challenger.input_buffer[Len(challenger.input_buffer)] = Elem(calls[Len(calls)])
    /\ Len(get_positions) = Len(outputs)
    /\ \A i \in DOMAIN outputs :
          absorbed(outputs[i][1]) = observed_before(get_positions[i])

\* A message was observed while an output was buffered, and a challenge was asked
\* for after it.
C14_Witness ==
    /\ Len(calls) >= 3
    /\ calls[Len(calls) - 2] = 0
    /\ calls[Len(calls) - 1] # 0
    /\ calls[Len(calls)] = 0
    /\ Len(outputs) >= 2
    /\ outputs[Len(outputs) - 1][2] = SPONGE_RATE

\* C15: the first challenge after a refill that followed an observe_element (or
\* the start) is slot SPONGE_RATE - 1 (from 0) of the refilled state; a challenge
\* asked for right after another is the next lower slot of the same state, and
\* when that state's rate slots are used up, slot SPONGE_RATE - 1 of the state one
\* more permutation makes of it. The buffered outputs are the slots not yet read.
C15_LifoChallenges ==
    /\ Len(get_positions) = Len(outputs)
    /\ \A i \in DOMAIN outputs :
          LET p == get_positions[i]
          IN IF p = 1 \/ calls[p - 1] # 0
             THEN outputs[i][2] = SPONGE_RATE
             ELSE IF outputs[i - 1][2] > 1
                  THEN outputs[i] = <<outputs[i - 1][1], outputs[i - 1][2] - 1>>
                  ELSE outputs[i] = <<permute(outputs[i - 1][1]), SPONGE_RATE>>
    /\ challenger.output_buffer
          = SubSeq(challenger.sponge_state, 1, Len(challenger.output_buffer))

\* After a message, SPONGE_RATE + 1 challenges were asked for in a row: the last
\* one took a permutation more.
C15_Witness ==
    /\ Len(calls) >= SPONGE_RATE + 2
    /\ calls[Len(calls) - SPONGE_RATE - 1] # 0
    /\ \A p \in (Len(calls) - SPONGE_RATE)..Len(calls) : calls[p] = 0
    /\ outputs[Len(outputs)][2] = SPONGE_RATE
    /\ outputs[Len(outputs) - 1][2] = 1

\* The number of permutations that made the sponge state `state`, counted along
\* the capacity slot.
RECURSIVE permutations(_)
permutations(state) ==
    LET read == state[SPONGE_WIDTH][1]
    IN IF read = <<>> THEN 0 ELSE 1 + permutations(read)

\* `post` is what absorbing `inputs` makes of `pre`: the last chunk was written
\* over the first slots of the state before it, whose other slots were kept, the
\* result was permuted once, and so for the chunks before it.
RECURSIVE overwrote(_, _, _)
overwrote(post, pre, inputs) ==
    IF inputs = <<>> THEN post = pre
    ELSE LET n == ((Len(inputs) - 1) % SPONGE_RATE) + 1
             rest == SubSeq(inputs, 1, Len(inputs) - n)
             read == post[1][1]
         IN /\ read # <<>>
            /\ post = permute(read)
            /\ \A i \in 1..n : read[i] = inputs[Len(inputs) - n + i]
            /\ LET before == IF rest = <<>> THEN pre
                             ELSE permute(read[SPONGE_WIDTH][1])
               IN /\ \A i \in (n + 1)..SPONGE_WIDTH : read[i] = before[i]
                  /\ overwrote(before, pre, rest)

\* C16: a get_challenge with k >= 1 pending messages absorbs them in chunks of
\* SPONGE_RATE, each written over the first slots of the state and followed by one
\* permutation, the other slots kept: ceil(k / SPONGE_RATE) permutations and no
\* squeeze. With no pending message and a buffered output it applies none.
C16_OverwriteModeAbsorption ==
    [][Len(outputs') = Len(outputs) + 1 =>
          LET k == Len(challenger.input_buffer)
              applied == permutations(challenger'.sponge_state)
                             - permutations(challenger.sponge_state)
          IN /\ k >= 1 =>
                   /\ applied = (k + SPONGE_RATE - 1) \div SPONGE_RATE
                   /\ overwrote(challenger'.sponge_state, challenger.sponge_state,
                                challenger.input_buffer)
             /\ k = 0 /\ challenger.output_buffer # <<>> =>
                   /\ applied = 0
                   /\ challenger'.sponge_state = challenger.sponge_state]_vars

\* After a first challenge, SPONGE_RATE + 1 messages were observed and absorbed by
\* the next get_challenge: a full chunk and a chunk of one.
C16_Witness ==
    /\ Len(calls) = SPONGE_RATE + 3
    /\ calls[1] = 0
    /\ \A p \in 2..(SPONGE_RATE + 2) : calls[p] # 0
    /\ calls[SPONGE_RATE + 3] = 0
    /\ permutations(challenger.sponge_state) = 3

\* C17: in both transcripts the input_buffer and the output_buffer are never both
\* non-empty, the output_buffer holds at most SPONGE_RATE elements, and right
\* after a get_challenge the input_buffer is empty.
C17_BuffersExclusive ==
    /\ challenger.input_buffer = <<>> \/ challenger.output_buffer = <<>>
    /\ recursive_challenger.input_buffer = <<>> \/ recursive_challenger.output_buffer = <<>>
    /\ Len(challenger.output_buffer) <= SPONGE_RATE
    /\ Len(recursive_challenger.output_buffer) <= SPONGE_RATE
    /\ calls # <<>> /\ calls[Len(calls)] = 0 =>
          challenger.input_buffer = <<>> /\ recursive_challenger.input_buffer = <<>>

\* Two messages were observed while an output was buffered, and the challenge
\* asked for after them left outputs buffered.
C17_Witness ==
    /\ Len(calls) >= 4
    /\ calls[Len(calls) - 3] = 0
    /\ calls[Len(calls) - 2] # 0
    /\ calls[Len(calls) - 1] # 0
    /\ calls[Len(calls)] = 0
    /\ Len(challenger.output_buffer) = SPONGE_RATE - 1
    /\ challenger.input_buffer = <<>>

\* The leaf proofs of a composition tree, read left to right.
RECURSIVE leaves_of(_)
leaves_of(proof) ==
    IF proof.children = <<>> THEN <<proof>>
    ELSE leaves_of(proof.children[1]) \o leaves_of(proof.children[2])

\* The depth of a composition tree: 0 for a leaf proof.
RECURSIVE depth_of(_)
depth_of(proof) ==
    IF proof.children = <<>> THEN 0
    ELSE LET a == depth_of(proof.children[1])
             b == depth_of(proof.children[2])
         IN 1 + (IF a >= b THEN a ELSE b)

\* The recursive circuits of a composition tree: its inner nodes.
RECURSIVE circuits_of(_)
circuits_of(proof) ==
    IF proof.children = <<>> THEN 0
    ELSE 1 + circuits_of(proof.children[1]) + circuits_of(proof.children[2])

\* ceil(log2(n)), for n >= 1.
ceil_log2(n) == CHOOSE d \in 0..n : Pow2(d) >= n /\ (d = 0 \/ Pow2(d - 1) < n)

\* The tree over [left, right] is split at floor((left + right) / 2), and so are
\* its halves.
RECURSIVE split_at_mid(_, _, _)
split_at_mid(proof, left, right) ==
    IF left = right THEN proof.children = <<>>
    ELSE LET n == right - left + 1
             mid == (left + right) \div 2
         IN /\ Len(proof.children) = 2
            /\ Len(leaves_of(proof.children[1])) = (n + 1) \div 2
            /\ Len(leaves_of(proof.children[2])) = n \div 2
            /\ split_at_mid(proof.children[1], left, mid)
            /\ split_at_mid(proof.children[2], mid + 1, right)

\* The ranges of the ProofLog, as <<left, right>>.
ranges ==
    {<<left, right>> : left \in 0..(Len(server.proofs) - 1),
                       right \in 0..(Len(server.proofs) - 1)}

\* C18: for every range left <= right of the ProofLog, the tree
\* get_recursive_proof builds is split at mid = floor((left + right) / 2) at every
\* node, a range of n proofs into ceil(n / 2) on the left and floor(n / 2) on the
\* right, and its depth is ceil(log2(n)).
C18_FoldSplitRule ==
    \A range \in ranges :
        range[1] <= range[2] =>
           LET r == get_recursive_proof(server, range[1], range[2], MaxFoldDepth)
           IN /\ r.tag = "Ok"
              /\ split_at_mid(r.val[1], range[1], range[2])
              /\ depth_of(r.val[1]) = ceil_log2(range[2] - range[1] + 1)

\* The whole of a ProofLog of three proofs has just been aggregated: two proofs on
\* the left, one on the right, depth two.
C18_Witness ==
    /\ Len(server.proofs) = 3
    /\ fold_ret.tag = "Ok"
    /\ depth_of(fold_ret.val[1]) = 2
    /\ Len(leaves_of(fold_ret.val[1].children[1])) = 2
    /\ Len(leaves_of(fold_ret.val[1].children[2])) = 1

\* C19: for every range 0 <= left <= right < len(ProofLog), the leaves of the
\* tree get_recursive_proof builds, read left to right, are ProofLog[left], ...,
\* ProofLog[right]; a range of one proof gives that proof as it is; and right - left
\* recursive circuits are built.
C19_FoldCoverage ==
    \A range \in ranges :
        range[1] <= range[2] =>
           LET r == get_recursive_proof(server, range[1], range[2], MaxFoldDepth)
           IN /\ r.tag = "Ok"
              /\ leaves_of(r.val[1]) = SubSeq(server.proofs, range[1] + 1, range[2] + 1)
              /\ circuits_of(r.val[1]) = range[2] - range[1]
              /\ range[1] = range[2] => r.val[1] = server.proofs[range[1] + 1]

\* The last two of three proofs, not the same proof twice, have just been
\* aggregated.
C19_Witness ==
    /\ Len(server.proofs) = 3
    /\ server.proofs[2] # server.proofs[3]
    /\ fold_ret.tag = "Ok"
    /\ leaves_of(fold_ret.val[1]) = <<server.proofs[2], server.proofs[3]>>
    /\ circuits_of(fold_ret.val[1]) = 1

\* The ranges get_recursive_proof(left, right) calls itself on, for left # right.
sub_ranges(left, right) ==
    LET mid == (left + right) \div 2
    IN {<<left, mid>>, <<mid + 1, right>>}

\* C20: for every pair of indices, get_recursive_proof returns or fails without
\* using up the call stack, and every call it makes on itself is on a non-empty
\* range inside [left, right] and smaller than it.
C20_FoldTerminates ==
    \A left \in 0..Len(server.proofs), right \in 0..Len(server.proofs) :
        /\ get_recursive_proof(server, left, right, MaxFoldDepth) # Panic("stack overflow")
        /\ fold_ret # Panic("stack overflow")
        /\ left # right =>
              \A sub \in sub_ranges(left, right) :
                  /\ left <= sub[1] /\ sub[1] <= sub[2] /\ sub[2] <= right
                  /\ sub[2] - sub[1] < right - left

\* C21: a split_and_submit by a wallet whose mirror is a state the server has
\* left is refused by the root check and changes nothing of the server; and a
\* wallet's mirror changes only by its own re-sync (get_state_from_server, or the
\* one that ends its own accepted split), to the server's state.
C21_StaleMirrorRejected ==
    [][/\ \A k \in Wallets : \A delta \in Deltas :
             (/\ SplitAndSubmit(k, delta)
              /\ delta <= clients[k].balance
              /\ clients[k].state # State_empty
              /\ clients[k].state # server.state) =>
                /\ verify_ret' = StaleRootError
                /\ server' = server
                /\ clients' = clients
       /\ \A k \in Wallets :
             clients'[k].state # clients[k].state =>
                /\ clients'[k].state = server'.state
                /\ \/ GetStateFromServer(k)
                   \/ \E delta \in Deltas : SplitAndSubmit(k, delta) /\ split_ret'.tag = "Ok"]_vars

\* Both wallets synced to the ledger's first state, the first wallet's split was
\* accepted, and the split of the second, which did not re-sync, was refused as
\* stale.
C21_Witness ==
    /\ clients[2].state = new_demo_state
    /\ clients[1].state = server.state
    /\ Len(splits) = 1 /\ splits[1][1] = 1
    /\ accepted = 1
    /\ verify_ret = StaleRootError
    /\ split_ret.tag = "Panic"

\* The nullifier accumulator of a server holds `leaf`.
nullified(srv, leaf) ==
    \E i \in 1..srv.state.next_index_nullify : srv.state.nullify_utxo_tree.leaves[i] = leaf

\* C22: in every reachable state with room left, a submission that names the
\* current root, whose proof the verifier accepts and whose nullifier_value the
\* nullifier accumulator already holds is accepted: the nullifier is inserted once
\* more and the new note leaf is appended.
C22_NoNullifierUniquenessCheck ==
    \A s \in Submissions :
        (/\ ~Full
         /\ s[2].merkle_root_value = current_root(server)
         /\ circuit_data_verify(s[1])
         /\ nullified(server, s[2].nullifier_value)) =>
           LET v == verify_and_update_state(server, s[1], s[2])
           IN /\ v.ret = Ok(server.state.next_index_utxo)
              /\ v.self.state.next_index_nullify = server.state.next_index_nullify + 1
              /\ v.self.state.nullify_utxo_tree.leaves[server.state.next_index_nullify + 1]
                     = s[2].nullifier_value
              /\ v.self.state.private_utxo_tree.leaves[server.state.next_index_utxo + 1]
                     = s[2].new_leaf_value
              /\ v.self.proofs = Append(server.proofs, s[1])

\* A submission has just been accepted whose nullifier the accumulator held
\* already: it holds it twice.
C22_Witness ==
    /\ verify_ret.tag = "Ok"
    /\ server.state.next_index_nullify >= 2
    /\ \E i \in 1..(server.state.next_index_nullify - 1) :
          server.state.nullify_utxo_tree.leaves[i]
              = server.state.nullify_utxo_tree.leaves[server.state.next_index_nullify]

\* C23: a submission is accepted only if the public inputs passed beside the
\* proof are the proof's own, so what an accepted submission checks and inserts is
\* what its proof attests.
C23_AcceptedInputsAreTheProofs ==
    \A s \in Submissions :
        s[2] # s[1].public_inputs[1] =>
           verify_and_update_state(server, s[1], s[2]).ret.tag # "Ok"

\* The wallets that had a split accepted.
has_split(k) == \E i \in DOMAIN splits : splits[i][1] = k

\* The note a wallet holds: the hash of its key, its token and its balance.
own_note(client) == hash_no_pad(client.priv_key, client.token_id, client.balance)

\* C24: for every wallet that had a split accepted, after any number of them, the
\* leaf at its index in its mirror is the hash of its key, token and balance; so
\* the proof of its next split, which proves that leaf in the mirror and nullifies
\* it, is generated.
C24_WalletIndexHoldsOwnNote ==
    \A k \in Wallets :
        has_split(k) =>
           /\ clients[k].priv_index < clients[k].state.next_index_utxo
           /\ clients[k].state.private_utxo_tree.leaves[clients[k].priv_index + 1]
                  = own_note(clients[k])
           /\ ~Full =>
                 \A delta \in 0..clients[k].balance :
                     LET r == split_and_submit(clients[k], delta, server)
                     IN /\ r.ret.tag # "Err"
                        /\ r.verify_ret.tag # "None"
                        /\ r.verify_ret.tag = "Ok" =>
                              r.server.state.nullify_utxo_tree.leaves[
                                  server.state.next_index_nullify + 1] = own_note(clients[k])

\* The second wallet split twice in a row and its second split has just returned:
\* its index is that of the last leaf of the note accumulator.
C24_Witness ==
    /\ splits = <<<<2, 1>>, <<2, 1>>>>
    /\ split_ret.tag = "Ok"
    /\ clients[2].priv_index = seeded + 1
    /\ clients[2].state = server.state

====
